---- MODULE Spec2Model ----
(***************************************************************************)
(* GitHub OAuth account linking of articledj:                              *)
(*   custom_auth/services/github_service/github_oauth.py  (the service)    *)
(*   custom_auth/api/v1/views.py                          (the callback)   *)
(*   accounts/models.py                                   (the store)      *)
(*                                                                         *)
(* The account store is the table of User rows.  Every database statement  *)
(* of a call is one step, so concurrent calls interleave between the       *)
(* statements of update_or_create and of the repair branch.  A statement   *)
(* that violates a unique constraint changes nothing and raises an         *)
(* IntegrityError naming one violated column (which one, when two are      *)
(* violated, is the database's choice).  No row lock is assumed between    *)
(* the SELECT and the save of update_or_create.                            *)
(*                                                                         *)
(* accounts/models.py declares email (unique, nullable) but none of the    *)
(* github_* columns the service writes; github_id is modelled as the       *)
(* account's provider_id, unique when present.  username is never written  *)
(* by the service and stays NULL, so its constraint never fires.           *)
(*                                                                         *)
(* Spec        concurrent calls of get_or_create_user, one per process     *)
(* SpecSeq     one worker handling requests one after the other, through   *)
(*             the callback view or authenticate_user                      *)
(* SpecSelect  _get_primary_email applied to a list of email records       *)
(***************************************************************************)
EXTENDS Integers, Sequences, FiniteSets, TLC

\* ------------------------------------------------------------------ bounds
\* number of concurrent calls
NProcs == 2
\* provider ids are "1" .. ToString(MaxGid)
MaxGid == 2
\* number of requests the sequential worker handles one after the other
MaxCalls == 3
\* longest list of email records _get_primary_email is applied to
MaxEmails == 3

Procs == 1..NProcs
\* the single worker of the sequential specification
SeqProcs == {1}

\* ------------------------------------------------------------- input values
\* github_id = str(github_user_data['id'])
GithubIds == {ToString(i) : i \in 1..MaxGid}

\* SQL NULL of the nullable columns / Python None
Null == "NULL"
\* a key that the provider's JSON does not carry
Absent == "<absent>"

\* An email address is a sequence of the pieces it is formatted from; a falsy
\* email (None or '') is the empty sequence.
NoEmail == << >>
DeclaredEmails == { <<"a@x.com">>, <<"b@x.com">> }

\* f"{github_user_data.get('login', 'github')}-{github_id}@users.noreply.github.com"
PlaceholderEmail(login, github_id) ==
    << (IF login = Absent THEN "github" ELSE login), "-", github_id,
       "@users.noreply.github.com" >>

\* mutant: a fallback email that does not carry the github_id
FallbackEmail_without_id(github_id) == << "github", "@users.noreply.github.com" >>

\* f"github-{github_id}@users.noreply.github.com"
FallbackEmail(github_id) ==
    << "github", "-", github_id, "@users.noreply.github.com" >>

\* the profile part of the provider's /user answer: login, name, html_url
Profiles ==
    { [login |-> "octo", name |-> <<"A", "d", "a", " ", "L">>, html_url |-> "u/octo"],
      [login |-> Absent, name |-> << >>,                      html_url |-> Absent] }

\* the provider's /user answer
Payloads ==
    { [id |-> g, email |-> e, login |-> f.login, name |-> f.name, html_url |-> f.html_url] :
        g \in GithubIds, e \in DeclaredEmails \cup {NoEmail}, f \in Profiles }

\* the answers of /user/emails a reconciliation call is run against
EmailLists ==
    { << >>,
      << [email |-> <<"b@x.com">>, primary |-> TRUE, verified |-> FALSE],
         [email |-> <<"a@x.com">>, primary |-> FALSE, verified |-> TRUE] >> }

\* what the GET of /user/emails comes to: a list (failed = FALSE), or a
\* requests.RequestException (timeout, transport, status)
EmailAnswers ==
    { [failed |-> FALSE, data |-> emails_data] : emails_data \in EmailLists }
        \cup { [failed |-> TRUE, data |-> << >>] }

\* ---------------------------------------------------------- pure functions
\* get_user_emails, lines 119-129: response.json(), [] on a RequestException
get_user_emails(answer) == IF answer.failed THEN << >> ELSE answer.data

RECURSIVE FirstPrimaryVerified(_, _)
\* first loop of _get_primary_email: index of the first record at or after i
\* that is primary and verified, 0 when there is none
FirstPrimaryVerified(emails_data, i) ==
    IF i > Len(emails_data) THEN 0
    ELSE IF emails_data[i].primary /\ emails_data[i].verified THEN i
    ELSE FirstPrimaryVerified(emails_data, i + 1)

RECURSIVE FirstVerified(_, _)
\* second loop of _get_primary_email: index of the first verified record
FirstVerified(emails_data, i) ==
    IF i > Len(emails_data) THEN 0
    ELSE IF emails_data[i].verified THEN i
    ELSE FirstVerified(emails_data, i + 1)

\* mutant: _get_primary_email without its first loop (lines 162-164)
_get_primary_email_verified_only(emails_data) ==
    LET j == FirstVerified(emails_data, 1)
    IN  IF j # 0 THEN emails_data[j].email ELSE NoEmail

\* GitHubOAuthService._get_primary_email
_get_primary_email(emails_data) ==
    LET i == FirstPrimaryVerified(emails_data, 1)
        j == FirstVerified(emails_data, 1)
    IN  IF i # 0 THEN emails_data[i].email
        ELSE IF j # 0 THEN emails_data[j].email
        ELSE NoEmail

RECURSIVE FirstSpace(_, _)
\* index of the first ' ' of full_name at or after i, 0 when there is none
FirstSpace(full_name, i) ==
    IF i > Len(full_name) THEN 0
    ELSE IF full_name[i] = " " THEN i
    ELSE FirstSpace(full_name, i + 1)

\* GitHubOAuthService._extract_name_parts: full_name.split(' ', 1)
_extract_name_parts(full_name) ==
    LET k == FirstSpace(full_name, 1)
    IN  IF full_name = << >> THEN << << >>, << >> >>
        ELSE IF k = 0 THEN << full_name, << >> >>
        ELSE << SubSeq(full_name, 1, k - 1), SubSeq(full_name, k + 1, Len(full_name)) >>

\* mutant: get_or_create_user without lines 191-192
ResolveEmail_without_placeholder(payload, emails_data) ==
    IF payload.email # NoEmail THEN payload.email
    ELSE _get_primary_email(emails_data)

\* get_or_create_user, lines 184-192: the email the call works with
ResolveEmail(payload, emails_data) ==
    LET fetched == IF payload.email # NoEmail THEN payload.email
                   ELSE _get_primary_email(emails_data)
    IN  IF fetched # NoEmail THEN fetched
        ELSE PlaceholderEmail(payload.login, payload.id)

\* get_or_create_user, lines 194-205: user_data
UserData(payload, email) ==
    [ github_id          |-> payload.id,
      email              |-> email,
      github_username    |-> IF payload.login = Absent THEN "" ELSE payload.login,
      first_name         |-> _extract_name_parts(payload.name)[1],
      last_name          |-> _extract_name_parts(payload.name)[2],
      github_profile_url |-> IF payload.html_url = Absent THEN "" ELSE payload.html_url ]

NoData ==
    [ github_id |-> Null, email |-> NoEmail, github_username |-> "",
      first_name |-> << >>, last_name |-> << >>, github_profile_url |-> "" ]

\* ------------------------------------------------------------------- state
VARIABLES
    users,      \* the User table: a sequence of rows, the primary key is the index
    pc,         \* pc[p]: the statement call p is at
    entry,      \* entry[p]: the function the caller invoked
    payload,    \* payload[p]: github_user_data of the worker's request
    user_data,  \* user_data[p]: the local user_data of get_or_create_user
    phase,      \* phase[p]: "first" for line 208, "retry" for line 228
    obj,        \* obj[p]: the model instance the call holds in memory
    err,        \* err[p]: the column the pending IntegrityError names
    out,        \* out[p]: how the call ended
    calls,      \* calls[p]: the collaborators the call has invoked so far
    writes,     \* writes[p]: the number of writes of the call the store committed
    raced,      \* raced[p]: a create of the call lost a race for its github_id or email
    pre,        \* pre[p]: the table when the worker's get_or_create_user was entered
    code,       \* code[p]: the 'code' of the request
    ncalls,     \* number of calls started so far
    holders,    \* holders[g]: the rows that have held github_id g so far
    primary_email   \* a call of _get_primary_email: its argument and what it returned

vars == << users, pc, entry, payload, user_data, phase, obj, err, out, calls,
           writes, raced, pre, code, ncalls, holders, primary_email >>

NoPayload == [id |-> Null, email |-> NoEmail, login |-> Absent, name |-> << >>, html_url |-> Absent]
NoObj == [pk |-> 0, row |-> NoData]
NoOut ==
    [ rec |-> "none", user |-> 0, created |-> FALSE, exc |-> "none", stage |-> "none",
      column |-> "none", surfaced |-> "none", message |-> << >>, status |-> 0,
      body |-> "none" ]

\* --------------------------------------------------------------- the store
\* mutant: the email column without its unique constraint
EmailTaken_unchecked(us, pk, row) == FALSE

\* accounts/models.py: email = models.EmailField(unique=True, null=True, ...)
EmailTaken(us, pk, row) ==
    /\ row.email # NoEmail
    /\ \E i \in 1..Len(us) : i # pk /\ us[i].email = row.email

\* mutant: the github_id column without a unique constraint
GithubIdTaken_unchecked(us, pk, row) == FALSE

\* the github_id column: unique when present
GithubIdTaken(us, pk, row) ==
    /\ row.github_id # Null
    /\ \E i \in 1..Len(us) : i # pk /\ us[i].github_id = row.github_id

\* the unique constraints a write of row as primary key pk (0: an INSERT) violates
Violations(us, pk, row) ==
    (IF EmailTaken(us, pk, row) THEN {"email"} ELSE {})
        \cup (IF GithubIdTaken(us, pk, row) THEN {"github_id"} ELSE {})

\* User.objects.get(github_id=...): the primary key of the row, 0 for DoesNotExist
PkByGithubId(us, github_id) ==
    IF \E i \in 1..Len(us) : us[i].github_id = github_id
    THEN CHOOSE i \in 1..Len(us) : us[i].github_id = github_id
    ELSE 0

\* User.objects.get(email=email), line 219
PkByEmail(us, email) ==
    IF \E i \in 1..Len(us) : us[i].email = email
    THEN CHOOSE i \in 1..Len(us) : us[i].email = email
    ELSE 0

\* the rows that have held each github_id, after the table became us
Held(h, us) ==
    [ g \in GithubIds |-> h[g] \cup { i \in 1..Len(us) : us[i].github_id = g } ]

\* no call of _get_primary_email on its own is under way
NoSelection == [ emails_data |-> << >>, returned |-> FALSE, email |-> NoEmail ]

\* ------------------------------------------------------ how a call ends
\* the value the entry point hands its caller when get_or_create_user returns
OutReturn(e, pk, created) ==
    [ rec |-> "returned", user |-> pk, created |-> created, exc |-> "none",
      stage |-> "none", column |-> "none",
      surfaced |-> IF e = "view" THEN "response" ELSE "return",
      message |-> << >>,
      status |-> IF e = "view" THEN 200 ELSE 0,
      body |-> IF e = "view" THEN "tokens" ELSE "none" ]

\* str(e) of the exception of kind exc raised at stage, as the pieces it is
\* formatted from: the database's text of an IntegrityError names the column;
\* lines 68/73, 101 and 233 format the GitHubOAuthError detail
CauseText(stage, exc, column) ==
    IF exc = "IntegrityError" THEN << "UNIQUE constraint failed: ", column >>
    ELSE IF stage = "token" THEN << "Failed to obtain access token from GitHub" >>
    ELSE IF stage = "profile"
    THEN << "Failed to fetch user info from GitHub: ", "RequestException" >>
    ELSE << "User creation failed: ", "UNIQUE constraint failed: ", column >>

\* mutant: authenticate_user without lines 257-258, wrapping every exception
AuthenticateUserExcept_wraps_all(exc, text) ==
    [ kind |-> "GitHubOAuthError", message |-> << "Authentication failed: " >> \o text ]

\* authenticate_user lines 256-259: the exception that leaves it when an
\* exception of kind exc with str(e) = text reaches the handler
AuthenticateUserExcept(exc, text) ==
    IF exc = "GitHubOAuthError"
    THEN [ kind |-> exc, message |-> text ]
    ELSE [ kind |-> "GitHubOAuthError",
           message |-> << "Authentication failed: " >> \o text ]

\* mutant: the view catching GitHubOAuthError only, any other exception
\* becoming the framework's 500
OutRaise_catches_auth_only(e, stage, exc, column) ==
    [ rec |-> IF stage = "reconcile" THEN "raised" ELSE "none",
      user |-> 0, created |-> FALSE, exc |-> exc, stage |-> stage, column |-> column,
      surfaced |-> IF e = "view" THEN "response"
                   ELSE IF e = "authenticate_user"
                   THEN AuthenticateUserExcept(exc, CauseText(stage, exc, column)).kind
                   ELSE exc,
      message |-> IF e = "view" THEN << >>
                  ELSE IF e = "authenticate_user"
                  THEN AuthenticateUserExcept(exc, CauseText(stage, exc, column)).message
                  ELSE CauseText(stage, exc, column),
      status |-> IF e # "view" THEN 0 ELSE IF exc = "GitHubOAuthError" THEN 400 ELSE 500,
      body |-> IF e = "view" THEN "empty" ELSE "none" ]

\* what the entry point does with an exception of kind exc raised at stage
\* (column: the column a uniqueness violation names, "none" otherwise):
\* views.py lines 39-41 answer 400 without data; authenticate_user lines 256-259
\* pass GitHubOAuthError through and wrap anything else; get_or_create_user
\* lets it propagate.  exc, stage and column keep the exception as raised,
\* surfaced and message are what the caller of the entry point gets.
OutRaise(e, stage, exc, column) ==
    [ rec |-> IF stage = "reconcile" THEN "raised" ELSE "none",
      user |-> 0, created |-> FALSE, exc |-> exc, stage |-> stage, column |-> column,
      surfaced |-> IF e = "view" THEN "response"
                   ELSE IF e = "authenticate_user"
                   THEN AuthenticateUserExcept(exc, CauseText(stage, exc, column)).kind
                   ELSE exc,
      message |-> IF e = "view" THEN << >>
                  ELSE IF e = "authenticate_user"
                  THEN AuthenticateUserExcept(exc, CauseText(stage, exc, column)).message
                  ELSE CauseText(stage, exc, column),
      status |-> IF e = "view" THEN 400 ELSE 0,
      body |-> IF e = "view" THEN "empty" ELSE "none" ]

Return(p, pk, created) ==
    /\ pc' = [pc EXCEPT ![p] = "done"]
    /\ out' = [out EXCEPT ![p] = OutReturn(entry[p], pk, created)]
    /\ obj' = [obj EXCEPT ![p] = NoObj]
    /\ err' = [err EXCEPT ![p] = "none"]

Raise(p, stage, exc, column) ==
    /\ pc' = [pc EXCEPT ![p] = "done"]
    /\ out' = [out EXCEPT ![p] = OutRaise(entry[p], stage, exc, column)]
    /\ obj' = [obj EXCEPT ![p] = NoObj]
    /\ err' = [err EXCEPT ![p] = "none"]

\* line 217: 'email' in str(e).lower()
ErrorMentionsEmail(column) == column = "email"

\* an IntegrityError naming column leaves update_or_create: line 208 is inside
\* the try of line 207, line 228 is inside the handler and nothing catches it
HandleIntegrityError(p, column) ==
    IF phase[p] = "retry" THEN Raise(p, "reconcile", "IntegrityError", column)
    ELSE IF ErrorMentionsEmail(column)
    THEN /\ pc' = [pc EXCEPT ![p] = "repair_get"]
         /\ err' = [err EXCEPT ![p] = "none"]
         /\ obj' = [obj EXCEPT ![p] = NoObj]
         /\ out' = out
    ELSE Raise(p, "reconcile", "GitHubOAuthError", column)

\* ----------------------------------------------------- get_or_create_user
\* lines 184-205: resolve the email and build user_data (answer: what the GET
\* of /user/emails comes to if it is made; before: the table to remember as
\* the one the call was entered with)
BeginReconcile(p, pl, answer, before) ==
    /\ user_data' = [user_data EXCEPT ![p] =
                        UserData(pl, ResolveEmail(pl, get_user_emails(answer)))]
    /\ calls' = [calls EXCEPT ![p] = @ \cup {"store"}
                    \cup (IF pl.email = NoEmail THEN {"emails"} ELSE {})
                    \cup (IF pl.email = NoEmail /\ get_user_emails(answer) = << >>
                          THEN {"emails_empty"} ELSE {})
                    \cup (IF pl.email = NoEmail /\ answer.failed
                          THEN {"emails_failed"} ELSE {})]
    /\ phase' = [phase EXCEPT ![p] = "first"]
    /\ pre' = [pre EXCEPT ![p] = before]
    /\ pc' = [pc EXCEPT ![p] = "uoc_get"]

\* a direct call of get_or_create_user(github_user_data, access_token);
\* emails_data is what get_user_emails returns to it, [] being an empty list
\* of the provider and a swallowed failure alike
Call(p) ==
    /\ pc[p] = "idle"
    /\ \A q \in Procs : q < p => pc[q] # "idle"
    /\ \E pl \in Payloads, emails_data \in EmailLists :
          BeginReconcile(p, pl, [failed |-> FALSE, data |-> emails_data], << >>)
    /\ entry' = [entry EXCEPT ![p] = "get_or_create_user"]
    /\ ncalls' = ncalls + 1
    /\ UNCHANGED << holders, primary_email, users, payload, obj, err, out, writes, raced,
                    code >>

\* mutant: defaults built without the 'email' key
Defaults_without_email(data) == [data EXCEPT !.email = NoEmail]

\* line 210, defaults=user_data: the columns update_or_create writes
Defaults(data) == data

\* mutant: update_or_create(email=email, ...), looking the row up by email
UocGet_by_email(p) ==
    /\ pc[p] = "uoc_get"
    /\ LET pk == PkByEmail(users, user_data[p].email)
       IN  /\ obj' = [obj EXCEPT ![p] = IF pk # 0 THEN [pk |-> pk, row |-> NoData] ELSE NoObj]
           /\ pc' = [pc EXCEPT ![p] = IF pk # 0 THEN "uoc_save" ELSE "uoc_create"]
           /\ err' = [err EXCEPT ![p] = "none"]
    /\ UNCHANGED << holders, primary_email, users, entry, payload, user_data, phase, out,
                    calls, writes, raced, pre, code, ncalls >>

\* update_or_create, the SELECT by github_id
UocGet(p) ==
    /\ pc[p] = "uoc_get"
    /\ LET pk == PkByGithubId(users, user_data[p].github_id)
       IN  /\ obj' = [obj EXCEPT ![p] = IF pk # 0 THEN [pk |-> pk, row |-> NoData] ELSE NoObj]
           /\ pc' = [pc EXCEPT ![p] = IF pk # 0 THEN "uoc_save" ELSE "uoc_create"]
           /\ err' = [err EXCEPT ![p] =
                        IF pk = 0 /\ ~EmailTaken(users, 0, user_data[p])
                        THEN "email_free" ELSE "none"]
    /\ UNCHANGED << holders, primary_email, users, entry, payload, user_data, phase, out,
                    calls, writes, raced, pre, code, ncalls >>

\* update_or_create, the INSERT of user_data
UocCreate(p) ==
    /\ pc[p] = "uoc_create"
    /\ LET V == Violations(users, 0, Defaults(user_data[p]))
       IN  IF V = {}
           THEN /\ users' = Append(users, Defaults(user_data[p]))
                /\ writes' = [writes EXCEPT ![p] = @ + 1]
                /\ Return(p, Len(users) + 1, TRUE)
                /\ raced' = raced
           ELSE /\ \E column \in V : err' = [err EXCEPT ![p] = column]
                /\ raced' = [raced EXCEPT ![p] =
                                @ \/ "github_id" \in V
                                  \/ ("email" \in V /\ err[p] = "email_free")]
                /\ pc' = [pc EXCEPT ![p] = "uoc_reget"]
                /\ UNCHANGED << users, writes, out, obj >>
    /\ UNCHANGED << primary_email, entry, payload, user_data, phase, calls, pre, code,
                    ncalls >>
    /\ holders' = Held(holders, users')

\* update_or_create, the second SELECT after a rejected INSERT
UocReget(p) ==
    /\ pc[p] = "uoc_reget"
    /\ LET pk == PkByGithubId(users, user_data[p].github_id)
       IN  IF pk # 0
           THEN /\ obj' = [obj EXCEPT ![p] = [pk |-> pk, row |-> NoData]]
                /\ pc' = [pc EXCEPT ![p] = "uoc_save"]
                /\ err' = [err EXCEPT ![p] = "none"]
                /\ out' = out
           ELSE HandleIntegrityError(p, err[p])
    /\ UNCHANGED << holders, primary_email, users, entry, payload, user_data, phase,
                    calls, writes, raced, pre, code, ncalls >>

\* mutant: a save whose rejected UPDATE still leaves the names written
UocSave_partial(p) ==
    /\ pc[p] = "uoc_save"
    /\ LET V == Violations(users, obj[p].pk, Defaults(user_data[p]))
       IN  IF V = {}
           THEN /\ users' = [users EXCEPT ![obj[p].pk] = Defaults(user_data[p])]
                /\ writes' = [writes EXCEPT ![p] = @ + 1]
                /\ Return(p, obj[p].pk, FALSE)
           ELSE /\ \E column \in V : HandleIntegrityError(p, column)
                /\ users' = [users EXCEPT
                                ![obj[p].pk].first_name = user_data[p].first_name,
                                ![obj[p].pk].last_name = user_data[p].last_name]
                /\ writes' = writes
    /\ UNCHANGED << primary_email, entry, payload, user_data, phase, calls, raced, pre,
                    code, ncalls >>
    /\ holders' = Held(holders, users')

\* update_or_create, setattr of the defaults and obj.save()
UocSave(p) ==
    /\ pc[p] = "uoc_save"
    /\ LET V == Violations(users, obj[p].pk, Defaults(user_data[p]))
       IN  IF V = {}
           THEN /\ users' = [users EXCEPT ![obj[p].pk] = Defaults(user_data[p])]
                /\ writes' = [writes EXCEPT ![p] = @ + 1]
                /\ Return(p, obj[p].pk, FALSE)
           ELSE /\ \E column \in V : HandleIntegrityError(p, column)
                /\ UNCHANGED << users, writes >>
    /\ UNCHANGED << primary_email, entry, payload, user_data, phase, calls, raced, pre,
                    code, ncalls >>
    /\ holders' = Held(holders, users')

\* lines 219 and 225-227: the lookup by email, the fallback email when it finds none
RepairGet(p) ==
    /\ pc[p] = "repair_get"
    /\ LET pk == PkByEmail(users, user_data[p].email)
       IN  IF pk # 0
           THEN /\ obj' = [obj EXCEPT ![p] = [pk |-> pk, row |-> users[pk]]]
                /\ pc' = [pc EXCEPT ![p] = "attach_save"]
                /\ UNCHANGED << user_data, phase >>
           ELSE /\ user_data' = [user_data EXCEPT
                                    ![p].email = FallbackEmail(user_data[p].github_id)]
                /\ phase' = [phase EXCEPT ![p] = "retry"]
                /\ pc' = [pc EXCEPT ![p] = "uoc_get"]
                /\ obj' = obj
    /\ calls' = [calls EXCEPT ![p] = @ \cup {"repair"}]
    /\ UNCHANGED << holders, primary_email, users, entry, payload, err, out, writes,
                    raced, pre, code, ncalls >>

\* mutant: the repair branch also taking the names of the identity
Attached_with_names(row, data) ==
    [ row EXCEPT !.github_id = data.github_id,
                 !.github_username = data.github_username,
                 !.github_profile_url = data.github_profile_url,
                 !.first_name = data.first_name,
                 !.last_name = data.last_name ]

\* mutant: the repair branch without line 220, user.github_id = github_id
Attached_without_id(row, data) ==
    [ row EXCEPT !.github_username = data.github_username,
                 !.github_profile_url = data.github_profile_url ]

\* lines 220-222: the instance after the three assignments
Attached(row, data) ==
    [ row EXCEPT !.github_id = data.github_id,
                 !.github_username = data.github_username,
                 !.github_profile_url = data.github_profile_url ]

\* mutant: the repair branch saving the instance as a new row (pk = None)
AttachSave_inserts(p) ==
    /\ pc[p] = "attach_save"
    /\ users' = Append(users, Attached(obj[p].row, user_data[p]))
    /\ writes' = [writes EXCEPT ![p] = @ + 1]
    /\ Return(p, Len(users) + 1, FALSE)
    /\ UNCHANGED << primary_email, entry, payload, user_data, phase, calls, raced, pre,
                    code, ncalls >>
    /\ holders' = Held(holders, users')

\* lines 220-224: user.save() of the instance fetched by email
AttachSave(p) ==
    /\ pc[p] = "attach_save"
    /\ LET row == Attached(obj[p].row, user_data[p])
           V == Violations(users, obj[p].pk, row)
       IN  IF V = {}
           THEN /\ users' = [users EXCEPT ![obj[p].pk] = row]
                /\ writes' = [writes EXCEPT ![p] = @ + 1]
                /\ Return(p, obj[p].pk, FALSE)
           ELSE /\ \E column \in V : Raise(p, "reconcile", "IntegrityError", column)
                /\ UNCHANGED << users, writes >>
    /\ UNCHANGED << primary_email, entry, payload, user_data, phase, calls, raced, pre,
                    code, ncalls >>
    /\ holders' = Held(holders, users')

Reconcile(p) ==
    \/ UocGet(p)
    \/ UocCreate(p)
    \/ UocReget(p)
    \/ UocSave(p)
    \/ RepairGet(p)
    \/ AttachSave(p)

\* the table the calls start from: empty, or holding the account that an
\* earlier get_or_create_user({id: 1, email: 'a@x.com', login: 'octo', ...}) created
InitialStores ==
    { << >>,
      << UserData([id |-> "1", email |-> <<"a@x.com">>, login |-> "octo",
                   name |-> <<"A", "d", "a", " ", "L">>, html_url |-> "u/octo"],
                  <<"a@x.com">>) >> }

\* ------------------------------------------------------ concurrent calls
\* no call has started
NoCalls ==
    /\ pc = [p \in Procs |-> "idle"]
    /\ entry = [p \in Procs |-> "none"]
    /\ payload = [p \in Procs |-> NoPayload]
    /\ user_data = [p \in Procs |-> NoData]
    /\ phase = [p \in Procs |-> "first"]
    /\ obj = [p \in Procs |-> NoObj]
    /\ err = [p \in Procs |-> "none"]
    /\ out = [p \in Procs |-> NoOut]
    /\ calls = [p \in Procs |-> {}]
    /\ writes = [p \in Procs |-> 0]
    /\ raced = [p \in Procs |-> FALSE]
    /\ pre = [p \in Procs |-> << >>]
    /\ code = [p \in Procs |-> "none"]
    /\ ncalls = 0

Init ==
    /\ users \in InitialStores
    /\ NoCalls
    /\ holders = Held([g \in GithubIds |-> {}], users)
    /\ primary_email = NoSelection

Next == \E p \in Procs : Call(p) \/ Reconcile(p)

Spec == Init /\ [][Next]_vars

\* ------------------------------------------- the callback and the service
\* what a request carries as 'code': no such key, a falsy value, a code
Codes == {"absent", "empty", "code"}

\* views.py line 23, request.data['code'] without the key: the KeyError is
\* raised before the try of line 28 and no handler of the view turns it into a
\* response of the view's own
OutKeyError ==
    [ NoOut EXCEPT !.exc = "KeyError", !.stage = "code", !.surfaced = "response",
                   !.status = 500, !.body = "none" ]

\* views.py lines 24-26
OutCodeRequired ==
    [ NoOut EXCEPT !.stage = "code", !.surfaced = "response", !.status = 400,
                   !.body = "error" ]

\* a request reaches github_oauth_callback (lines 23-28), or a caller invokes
\* authenticate_user(code)
Request(p) ==
    /\ pc[p] = "idle"
    /\ \E e \in {"view", "authenticate_user"}, c \in Codes :
          /\ e = "authenticate_user" => c # "absent"
          /\ entry' = [entry EXCEPT ![p] = e]
          /\ code' = [code EXCEPT ![p] = c]
          /\ IF e = "view" /\ c = "absent"
             THEN /\ pc' = [pc EXCEPT ![p] = "done"]
                  /\ out' = [out EXCEPT ![p] = OutKeyError]
             ELSE IF e = "view" /\ c = "empty"
             THEN /\ pc' = [pc EXCEPT ![p] = "done"]
                  /\ out' = [out EXCEPT ![p] = OutCodeRequired]
             ELSE /\ pc' = [pc EXCEPT ![p] = "token"]
                  /\ out' = out
    /\ ncalls' = ncalls + 1
    /\ UNCHANGED << holders, primary_email, users, payload, user_data, phase, obj, err,
                    calls, writes, raced, pre >>

\* the answers of the provider's token endpoint: a token, a body without
\* access_token (line 67), a requests.RequestException (timeout, transport, status)
TokenAnswers == {"ok", "no_token", "request_exception"}

\* mutant: get_access_token returning None instead of raising, so that the
\* caller goes on to the profile fetch
GetAccessToken_swallows(p) ==
    /\ pc[p] = "token"
    /\ \E answer \in TokenAnswers :
          /\ pc' = [pc EXCEPT ![p] = "profile"]
          /\ calls' = [calls EXCEPT ![p] = @ \cup
                          (IF answer = "ok" THEN {"token"} ELSE {"token", "token_failed"})]
          /\ UNCHANGED << out, obj, err >>
    /\ UNCHANGED << holders, primary_email, users, entry, payload, user_data, phase,
                    writes, raced, pre, code, ncalls >>

\* get_access_token: lines 57-73
GetAccessToken(p) ==
    /\ pc[p] = "token"
    /\ \E answer \in TokenAnswers :
          IF answer = "ok"
          THEN /\ pc' = [pc EXCEPT ![p] = "profile"]
               /\ calls' = [calls EXCEPT ![p] = @ \cup {"token"}]
               /\ UNCHANGED << out, obj, err >>
          ELSE /\ Raise(p, "token", "GitHubOAuthError", "none")
               /\ calls' = [calls EXCEPT ![p] = @ \cup {"token", "token_failed"}]
    /\ UNCHANGED << holders, primary_email, users, entry, payload, user_data, phase,
                    writes, raced, pre, code, ncalls >>

\* get_user_information: lines 91-101
GetUserInformation(p) ==
    /\ pc[p] = "profile"
    /\ calls' = [calls EXCEPT ![p] = @ \cup {"profile"}]
    /\ \/ \E pl \in Payloads :
            /\ payload' = [payload EXCEPT ![p] = pl]
            /\ pc' = [pc EXCEPT ![p] = "reconcile"]
            /\ UNCHANGED << out, obj, err >>
       \/ /\ Raise(p, "profile", "GitHubOAuthError", "none")
          /\ payload' = payload
    /\ UNCHANGED << holders, primary_email, users, entry, user_data, phase, writes, raced,
                    pre, code, ncalls >>

\* the call of get_or_create_user by the view (line 31) or by authenticate_user (line 249)
GetOrCreateUser(p) ==
    /\ pc[p] = "reconcile"
    /\ \E answer \in EmailAnswers : BeginReconcile(p, payload[p], answer, users)
    /\ UNCHANGED << holders, primary_email, users, entry, payload, obj, err, out, writes,
                    raced, code, ncalls >>

\* the worker takes the next request
NextRequest(p) ==
    /\ pc[p] = "done"
    /\ ncalls < MaxCalls
    /\ pc' = [pc EXCEPT ![p] = "idle"]
    /\ entry' = [entry EXCEPT ![p] = "none"]
    /\ payload' = [payload EXCEPT ![p] = NoPayload]
    /\ user_data' = [user_data EXCEPT ![p] = NoData]
    /\ phase' = [phase EXCEPT ![p] = "first"]
    /\ out' = [out EXCEPT ![p] = NoOut]
    /\ calls' = [calls EXCEPT ![p] = {}]
    /\ writes' = [writes EXCEPT ![p] = 0]
    /\ raced' = [raced EXCEPT ![p] = FALSE]
    /\ pre' = [pre EXCEPT ![p] = << >>]
    /\ code' = [code EXCEPT ![p] = "none"]
    /\ UNCHANGED << holders, primary_email, users, obj, err, ncalls >>

\* ------------------------------------ requests handled one after the other
\* the tables the worker starts from: those above, or the account above next
\* to one that User.objects.create(email='b@x.com') made, without a github_id
WorkerStores ==
    InitialStores \cup
        { s \o << [NoData EXCEPT !.email = <<"b@x.com">>] >> : s \in InitialStores \ {<< >>} }

InitSeq ==
    /\ users \in WorkerStores
    /\ NoCalls
    /\ holders = Held([g \in GithubIds |-> {}], users)
    /\ primary_email = NoSelection

NextSeq ==
    \E p \in SeqProcs :
        \/ Request(p)
        \/ GetAccessToken(p)
        \/ GetUserInformation(p)
        \/ GetOrCreateUser(p)
        \/ Reconcile(p)
        \/ NextRequest(p)

SpecSeq == InitSeq /\ [][NextSeq]_vars

\* ------------------------------------------ _get_primary_email on its own
\* an entry of the list of /user/emails
EmailRecords ==
    [ email : DeclaredEmails, primary : BOOLEAN, verified : BOOLEAN ]

\* the lists of at most MaxEmails entries
EmailRecordLists == UNION { [1..n -> EmailRecords] : n \in 0..MaxEmails }

InitSelect ==
    /\ users = << >>
    /\ NoCalls
    /\ holders = Held([g \in GithubIds |-> {}], users)
    /\ primary_email \in
          { [ emails_data |-> emails_data, returned |-> FALSE, email |-> NoEmail ] :
              emails_data \in EmailRecordLists }

\* email = GitHubOAuthService._get_primary_email(emails_data), line 189
SelectPrimaryEmail ==
    /\ ~primary_email.returned
    /\ primary_email' =
          [ primary_email EXCEPT !.returned = TRUE,
                                 !.email = _get_primary_email(primary_email.emails_data) ]
    /\ UNCHANGED << users, pc, entry, payload, user_data, phase, obj, err, out, calls,
                    writes, raced, pre, code, ncalls, holders >>

NextSelect == SelectPrimaryEmail

SpecSelect == InitSelect /\ [][NextSelect]_vars

\* ------------------------------------------------------------- properties
Ended(p) == pc[p] = "done"
Reconciled(p) == Ended(p) /\ "store" \in calls[p]
ReturnedAccount(p) == out[p].rec = "returned" /\ out[p].user \in 1..Len(users)

\* C1: no two rows of the table hold the same non-null github_id, whatever
\* calls have run and however they interleaved.
C1_ProviderIdUnique ==
    \A i, j \in 1..Len(users) :
        (i # j /\ users[i].github_id # Null) => users[i].github_id # users[j].github_id

\* a call whose write the store rejected for github_id has ended, two accounts exist
C1_Witness ==
    \E p \in Procs : Ended(p) /\ out[p].column = "github_id" /\ Len(users) >= 2

\* C2: no two rows of the table hold the same non-null email, also after the
\* update, the attach and the retry with the fallback email.
C2_EmailUnique ==
    \A i, j \in 1..Len(users) :
        (i # j /\ users[i].email # NoEmail) => users[i].email # users[j].email

\* one call ended through the retry with the fallback email after another
\* call's update moved the email owner to a new email, and two accounts exist
C2_Witness ==
    /\ Len(users) >= 2
    /\ \E p, r \in Procs :
          /\ Ended(p) /\ phase[p] = "retry" /\ out[p].rec = "returned"
          /\ Ended(r) /\ "repair" \notin calls[r] /\ out[r].rec = "returned"
                      /\ ~out[r].created

\* C3: every call of get_or_create_user that has ended returned an account,
\* and the store committed at most one write of it.
C3_ExactlyOneReturned ==
    \A p \in Procs :
        Reconciled(p) => (ReturnedAccount(p) /\ writes[p] <= 1)

\* the case of C4: when the call was entered some row owned the email and no
\* row held the github_id
C4_Case(p) ==
    /\ Reconciled(p)
    /\ PkByEmail(pre[p], user_data[p].email) # 0
    /\ PkByGithubId(pre[p], user_data[p].github_id) = 0

\* C4: a call whose email is owned by a row and whose github_id is held by no
\* row sets that row's github_id, returns that row with created = False and
\* leaves the number of rows as it was.
C4_AttachesToEmailOwner ==
    \A p \in Procs :
        C4_Case(p) =>
            /\ ReturnedAccount(p)
            /\ out[p].user = PkByEmail(pre[p], user_data[p].email)
            /\ ~out[p].created
            /\ users[out[p].user].github_id = user_data[p].github_id
            /\ Len(users) = Len(pre[p])

\* the email owner carried another github_id before the call
C4_Witness ==
    \E p \in Procs :
        /\ C4_Case(p)
        /\ pre[p][PkByEmail(pre[p], user_data[p].email)].github_id # user_data[p].github_id
        /\ ReturnedAccount(p)

\* the case of C5: when the call was entered no row held the github_id and no
\* row owned the email
C5_Case(p) ==
    /\ Reconciled(p)
    /\ PkByGithubId(pre[p], user_data[p].github_id) = 0
    /\ PkByEmail(pre[p], user_data[p].email) = 0

\* C5: a call with a github_id and an email that no row holds adds exactly one
\* row, carrying that github_id and email, and returns it with created = True.
C5_FreshIdentityCreates ==
    \A p \in Procs :
        C5_Case(p) =>
            /\ ReturnedAccount(p)
            /\ out[p].created
            /\ Len(users) = Len(pre[p]) + 1
            /\ out[p].user = Len(users)
            /\ SubSeq(users, 1, Len(pre[p])) = pre[p]
            /\ users[out[p].user].github_id = user_data[p].github_id
            /\ users[out[p].user].email = user_data[p].email

\* a fresh identity was reconciled against a table that already had rows
C5_Witness ==
    \E p \in Procs : C5_Case(p) /\ Len(pre[p]) >= 1 /\ out[p].created

\* C6: a call whose github_id is held by a row updates that row, returns it
\* with created = False, and github_id stays unique.
C6_UpdatesHolder ==
    \A p \in Procs :
        (Reconciled(p) /\ PkByGithubId(pre[p], user_data[p].github_id) # 0) =>
            /\ ReturnedAccount(p)
            /\ out[p].user = PkByGithubId(pre[p], user_data[p].github_id)
            /\ ~out[p].created
            /\ users[out[p].user] = user_data[p]
            /\ C1_ProviderIdUnique

\* C7: a call that lost a race for its github_id or its email (the store
\* rejected its INSERT) ends with one account returned, and no duplicate is left.
C7_LoserCompletes ==
    \A p \in Procs :
        (Ended(p) /\ raced[p]) =>
            (ReturnedAccount(p) /\ C1_ProviderIdUnique /\ C2_EmailUnique)

\* C8: a call that a uniqueness violation on a column other than email ended
\* raised GitHubOAuthError and had made no repair lookup.
C8_NonEmailViolationIsAuthError ==
    \A p \in Procs :
        (Ended(p) /\ out[p].column \notin {"none", "email"}) =>
            (out[p].exc = "GitHubOAuthError" /\ "repair" \notin calls[p])

\* C9: once the token exchange has failed the call has ended with
\* GitHubOAuthError (a 400 response of the view), the store has committed no
\* write of it, and neither the profile nor the emails nor the store were reached.
C9_TokenFailureWritesNothing ==
    \A p \in Procs :
        "token_failed" \in calls[p] =>
            /\ Ended(p)
            /\ out[p].exc = "GitHubOAuthError"
            /\ entry[p] = "authenticate_user" => out[p].surfaced = "GitHubOAuthError"
            /\ entry[p] = "view" => out[p].status = 400
            /\ writes[p] = 0
            /\ calls[p] = {"token", "token_failed"}

\* the token exchange failed while the table held accounts
C9_Witness ==
    \E p \in Procs : "token_failed" \in calls[p] /\ Len(users) >= 1

\* C10: a callback request without a code is answered 400 with an error
\* message, and no collaborator has been invoked.
C10_MissingCodeIs400 ==
    \A p \in Procs :
        (Ended(p) /\ entry[p] = "view" /\ code[p] \in {"absent", "empty"}) =>
            (out[p].status = 400 /\ out[p].body = "error" /\ calls[p] = {})

\* a callback request that passed the code check and ended in an exception
C11_Case(p) ==
    Ended(p) /\ entry[p] = "view" /\ code[p] = "code" /\ out[p].exc # "none"

\* the collaborators invoked up to and including the step that failed
StepsThrough(stage) ==
    IF stage = "token" THEN {"token", "token_failed"}
    ELSE IF stage = "profile" THEN {"token", "profile"}
    ELSE {"token", "profile", "store", "emails", "emails_failed", "repair"}

\* a step that raises ends the request, and an ended request is not resumed:
\* the worker only goes on to a new request
C11_NoRetry ==
    \A p \in Procs :
        /\ (out[p].exc = "none" /\ out'[p].exc # "none") => pc'[p] = "done"
        /\ (pc[p] = "done" /\ pc'[p] # "done") => (pc'[p] = "idle" /\ out'[p] = NoOut)

\* C11: a callback request that passed the code check and failed in the token
\* exchange, the profile fetch or the reconciliation, with whatever kind of
\* exception, is answered 400 without tokens; no step after the failed one
\* was invoked and the failed step is not run again.
C11_FailureIs400 ==
    /\ [](\A p \in Procs :
            C11_Case(p) =>
                /\ out[p].status = 400
                /\ out[p].body # "tokens"
                /\ calls[p] \subseteq StepsThrough(out[p].stage))
    /\ [][C11_NoRetry]_vars

\* a callback request ended by the IntegrityError of the repair branch's save
C11_Witness ==
    \E p \in Procs :
        C11_Case(p) /\ out[p].exc = "IntegrityError" /\ out[p].stage = "reconcile"

\* C12: whatever ends authenticate_user with an exception, a GitHubOAuthError
\* leaves it: the component's own GitHubOAuthError with its text unchanged,
\* any other exception as a GitHubOAuthError whose text ends with the text of
\* the exception it wraps.
C12_OnlyAuthError ==
    \A p \in Procs :
        (Ended(p) /\ entry[p] = "authenticate_user" /\ out[p].exc # "none") =>
            LET text == CauseText(out[p].stage, out[p].exc, out[p].column)
                n == Len(out[p].message)
            IN  /\ out[p].surfaced = "GitHubOAuthError"
                /\ out[p].exc = "GitHubOAuthError" => out[p].message = text
                /\ out[p].exc # "GitHubOAuthError" =>
                      /\ n > Len(text)
                      /\ SubSeq(out[p].message, n - Len(text) + 1, n) = text

\* authenticate_user ended by the IntegrityError of the repair branch's save
C12_Witness ==
    \E p \in Procs :
        /\ Ended(p) /\ entry[p] = "authenticate_user"
        /\ out[p].exc = "IntegrityError" /\ out[p].stage = "reconcile"
        /\ "repair" \in calls[p]

\* the case of C13: the identity declared no email and the list of
\* /user/emails came out empty
C13_Case(p) ==
    Reconciled(p) /\ payload[p].email = NoEmail /\ "emails_empty" \in calls[p]

\* C13: a call whose identity declares no email and whose email list is empty
\* (also when the fetch failed and [] stood in for it) returns an account that
\* holds the github_id with the email {login}-{github_id}@users.noreply.github.com,
\* and adds at most that one account.
C13_PlaceholderEmail ==
    \A p \in Procs :
        C13_Case(p) =>
            /\ ReturnedAccount(p)
            /\ users[out[p].user].github_id = payload[p].id
            /\ users[out[p].user].email = PlaceholderEmail(payload[p].login, payload[p].id)
            /\ Len(users) = Len(pre[p]) + (IF out[p].created THEN 1 ELSE 0)

\* the fetch of the emails failed, the login is present and the account was created
C13_Witness ==
    \E p \in Procs :
        /\ C13_Case(p) /\ "emails_failed" \in calls[p] /\ payload[p].login # Absent
        /\ ReturnedAccount(p) /\ out[p].created /\ Len(users) >= 2

\* the positions of the list whose record is primary and verified / verified
PrimaryVerifiedAt(l) == { i \in 1..Len(l) : l[i].primary /\ l[i].verified }
VerifiedAt(l) == { i \in 1..Len(l) : l[i].verified }
Lowest(S) == CHOOSE i \in S : \A j \in S : i <= j

\* C14: for every list of email records _get_primary_email returns the email
\* of the record at the lowest position that is primary and verified; when no
\* record is, the email of the record at the lowest verified position; when
\* no record is verified, no email.
C14_FirstMatchWins ==
    primary_email.returned =>
        LET l == primary_email.emails_data
        IN  primary_email.email =
                IF PrimaryVerifiedAt(l) # {} THEN l[Lowest(PrimaryVerifiedAt(l))].email
                ELSE IF VerifiedAt(l) # {} THEN l[Lowest(VerifiedAt(l))].email
                ELSE NoEmail

\* the list [unverified, primary and verified, verified]: the second record's
\* email was returned, and it is neither the first's nor the third's
C14_Witness ==
    LET l == primary_email.emails_data
    IN  /\ primary_email.returned
        /\ Len(l) = 3
        /\ ~l[1].verified
        /\ l[2].primary /\ l[2].verified
        /\ l[3].verified /\ ~l[3].primary
        /\ l[1].email # l[2].email /\ l[3].email # l[2].email
        /\ primary_email.email = l[2].email

\* row j holds github_id g after the step and did not before it
NewlyHolds(j, g) ==
    /\ users'[j].github_id = g
    /\ j > Len(users) \/ users[j].github_id # g

\* the step is the save of the repair branch (lines 220-223)
AttachStep == \E p \in Procs : pc[p] = "attach_save"

\* C15: a github_id that a row has held comes to be held by another row only
\* in the save of the repair branch: no INSERT or save of update_or_create,
\* first or retried, gives a row a github_id that another row has held.
C15_MovedOnlyByAttach ==
    [][\A g \in GithubIds : \A j \in 1..Len(users') :
          (NewlyHolds(j, g) /\ holders[g] \ {j} # {}) => AttachStep]_vars

\* C15 as it holds for calls that run one after the other: only the save of
\* the repair branch changes the github_id of a row that has one, and a row
\* is only given a github_id that no row holds at that moment.  (A github_id
\* that the repair branch overwrote on its row is free again, and the INSERT
\* of a later call can give it to a new row.)
C15_OnlyAttachRelinks ==
    [][\A j \in 1..Len(users') :
          /\ (j <= Len(users) /\ users[j].github_id # Null
                  /\ users'[j].github_id # users[j].github_id) => AttachStep
          /\ \A g \in GithubIds :
                NewlyHolds(j, g) => \A i \in 1..Len(users) : users[i].github_id # g]_vars

\* a github_id is on a row created for it after the repair branch took it
\* off the row that held it before
C15_Witness ==
    \E g \in GithubIds : \E i, j \in 1..Len(users) :
        /\ i # j /\ {i, j} \subseteq holders[g]
        /\ users[j].github_id = g
        /\ users[i].github_id \notin {g, Null}

\* the case of C16: when the call was entered row A held the github_id and
\* another row B owned the email
C16_Case(p) ==
    /\ Reconciled(p)
    /\ PkByGithubId(pre[p], user_data[p].github_id) # 0
    /\ PkByEmail(pre[p], user_data[p].email) # 0
    /\ PkByGithubId(pre[p], user_data[p].github_id) # PkByEmail(pre[p], user_data[p].email)

\* C16: a call whose github_id is held by row A and whose email is owned by
\* another row B ends with github_id, github_username and github_profile_url
\* of the identity on B, and returns B with created = False.
C16_RepairAttachesToOwner ==
    \A p \in Procs :
        C16_Case(p) =>
            LET B == PkByEmail(pre[p], user_data[p].email)
            IN  /\ ReturnedAccount(p)
                /\ out[p].user = B
                /\ ~out[p].created
                /\ users[B] = Attached(pre[p][B], user_data[p])

\* call p ends in this step
Ends(p) == pc[p] # "done" /\ pc'[p] = "done"

\* the email the retry is to be run with
C17_Email(p) == << "github", "-", user_data[p].github_id, "@users.noreply.github.com" >>

\* the step in which a call that went through line 227 ends: it returns the
\* row that update_or_create of line 228 just wrote, which carries user_data
\* with the fallback email, with created telling whether the row is new
C17_RetryStep ==
    \A p \in Procs :
        (Ends(p) /\ phase[p] = "retry") =>
            /\ user_data[p].email = C17_Email(p)
            /\ out'[p].rec = "returned"
            /\ out'[p].user \in 1..Len(users')
            /\ users'[out'[p].user] = user_data[p]
            /\ out'[p].created <=> out'[p].user > Len(users)
            /\ writes'[p] = 1

Touched(p) ==
    { i \in 1..Len(users) : i > Len(pre[p]) \/ users[i] # pre[p][i] }

\* call p returned through the save of the repair branch (line 224)
Repaired(p) ==
    Reconciled(p) /\ "repair" \in calls[p] /\ phase[p] = "first" /\ ReturnedAccount(p)

\* C18: a call that has ended left at most one row different from what it
\* was when the call was entered, no row is gone, a changed or new row is the
\* row returned, and a call that returned through the repair branch added no row.
C18_AtMostOneTouched ==
    \A p \in Procs :
        Reconciled(p) =>
            /\ Len(users) >= Len(pre[p])
            /\ Cardinality(Touched(p)) <= 1
            /\ ReturnedAccount(p) => Touched(p) \subseteq {out[p].user}
            /\ Repaired(p) => Len(users) = Len(pre[p])

\* a call returned through the repair branch, changed the row it returned and
\* left another row as it was
C18_Witness ==
    \E p \in Procs :
        Repaired(p) /\ Touched(p) = {out[p].user} /\ Len(pre[p]) >= 2

\* C19: the row a call returned through the repair branch has the github_id,
\* github_username and github_profile_url of the identity, and its email,
\* first_name and last_name are what they were when the call was entered.
C19_AttachKeepsEmailAndNames ==
    \A p \in Procs :
        Repaired(p) =>
            LET B == out[p].user
            IN  /\ B <= Len(pre[p])
                /\ users[B].email = pre[p][B].email
                /\ users[B].first_name = pre[p][B].first_name
                /\ users[B].last_name = pre[p][B].last_name
                /\ users[B].github_id = user_data[p].github_id
                /\ users[B].github_username = user_data[p].github_username
                /\ users[B].github_profile_url = user_data[p].github_profile_url

\* the identity carried other names than the row it was attached to
C19_Witness ==
    \E p \in Procs :
        /\ Repaired(p)
        /\ user_data[p].first_name # users[out[p].user].first_name
        /\ user_data[p].last_name # users[out[p].user].last_name
        /\ user_data[p].github_username # pre[p][out[p].user].github_username

\* C20: when a call has ended with an exception of the reconciliation, the
\* table is what it was when the call was entered and the store committed no
\* write of the call.
C20_ErrorLeavesStore ==
    \A p \in Procs :
        (Reconciled(p) /\ out[p].rec = "raised") =>
            (users = pre[p] /\ writes[p] = 0)

\* the save of the repair branch was rejected after the update was rejected
C20_Witness ==
    \E p \in Procs :
        /\ Reconciled(p) /\ out[p].rec = "raised"
        /\ "repair" \in calls[p] /\ out[p].column = "github_id"
        /\ Len(users) >= 2

====
